---------------------------- MODULE Spec2Model ----------------------------
(***************************************************************************)
(* PS/2 to USB HID keyboard bridge: the PS/2 frame decoder and keyboard    *)
(* state tracker of src/ps2.c and the report emitter of src/main.c.        *)
(***************************************************************************)
EXTENDS Integers, Sequences, FiniteSets, TLC

\* ------------------------------------------------------------------------
\* Program constants (src/ps2.c)
\* ------------------------------------------------------------------------
HID_KEY_CAPS_LOCK   == \h39
HID_MOD_LEFT_CTRL   == \h01
HID_MOD_LEFT_SHIFT  == \h02
HID_MOD_LEFT_ALT    == \h04
HID_MOD_LEFT_GUI    == \h08
HID_MOD_RIGHT_CTRL  == \h10
HID_MOD_RIGHT_SHIFT == \h20
HID_MOD_RIGHT_ALT   == \h40
HID_MOD_RIGHT_GUI   == \h80

\* sizeof(g_keys): static uint8_t g_keys[6]
KEYS_LEN == 6

\* ------------------------------------------------------------------------
\* uint8_t arithmetic
\* ------------------------------------------------------------------------
Bit(x, i) == (x \div (2 ^ i)) % 2

\* a & b on 8-bit operands
And8(a, b) ==
  Bit(a, 0) * Bit(b, 0) + 2 * Bit(a, 1) * Bit(b, 1) + 4 * Bit(a, 2) * Bit(b, 2)
  + 8 * Bit(a, 3) * Bit(b, 3) + 16 * Bit(a, 4) * Bit(b, 4) + 32 * Bit(a, 5) * Bit(b, 5)
  + 64 * Bit(a, 6) * Bit(b, 6) + 128 * Bit(a, 7) * Bit(b, 7)

\* ~a truncated to 8 bits
Not8(a) == 255 - a

\* a | b on 8-bit operands
Or8(a, b) == a + b - And8(a, b)

\* ------------------------------------------------------------------------
\* PS/2 Set 2 scancode -> HID keycode tables (0 = unmapped)
\* ------------------------------------------------------------------------
scancode_to_hid ==
  [c \in 0..255 |->
     CASE c = \h01 -> \h42   \* [0x01] = HID_KEY_F9
       [] c = \h03 -> \h3E   \* [0x03] = HID_KEY_F5
       [] c = \h04 -> \h3C   \* [0x04] = HID_KEY_F3
       [] c = \h05 -> \h3A   \* [0x05] = HID_KEY_F1
       [] c = \h06 -> \h3B   \* [0x06] = HID_KEY_F2
       [] c = \h07 -> \h45   \* [0x07] = HID_KEY_F12
       [] c = \h09 -> \h43   \* [0x09] = HID_KEY_F10
       [] c = \h0A -> \h41   \* [0x0A] = HID_KEY_F8
       [] c = \h0B -> \h3F   \* [0x0B] = HID_KEY_F6
       [] c = \h0C -> \h3D   \* [0x0C] = HID_KEY_F4
       [] c = \h0D -> \h2B   \* [0x0D] = HID_KEY_TAB
       [] c = \h0E -> \h35   \* [0x0E] = HID_KEY_GRAVE
       [] c = \h11 -> \hFF   \* [0x11] = 0xFF
       [] c = \h12 -> \hFE   \* [0x12] = 0xFE
       [] c = \h14 -> \hFD   \* [0x14] = 0xFD
       [] c = \h15 -> \h14   \* [0x15] = HID_KEY_Q
       [] c = \h16 -> \h1E   \* [0x16] = HID_KEY_1
       [] c = \h1A -> \h1D   \* [0x1A] = HID_KEY_Z
       [] c = \h1B -> \h16   \* [0x1B] = HID_KEY_S
       [] c = \h1C -> \h04   \* [0x1C] = HID_KEY_A
       [] c = \h1D -> \h1A   \* [0x1D] = HID_KEY_W
       [] c = \h1E -> \h1F   \* [0x1E] = HID_KEY_2
       [] c = \h21 -> \h06   \* [0x21] = HID_KEY_C
       [] c = \h22 -> \h1B   \* [0x22] = HID_KEY_X
       [] c = \h23 -> \h07   \* [0x23] = HID_KEY_D
       [] c = \h24 -> \h08   \* [0x24] = HID_KEY_E
       [] c = \h25 -> \h21   \* [0x25] = HID_KEY_4
       [] c = \h26 -> \h20   \* [0x26] = HID_KEY_3
       [] c = \h29 -> \h2C   \* [0x29] = HID_KEY_SPACE
       [] c = \h2A -> \h19   \* [0x2A] = HID_KEY_V
       [] c = \h2B -> \h09   \* [0x2B] = HID_KEY_F
       [] c = \h2C -> \h17   \* [0x2C] = HID_KEY_T
       [] c = \h2D -> \h15   \* [0x2D] = HID_KEY_R
       [] c = \h2E -> \h22   \* [0x2E] = HID_KEY_5
       [] c = \h31 -> \h11   \* [0x31] = HID_KEY_N
       [] c = \h32 -> \h05   \* [0x32] = HID_KEY_B
       [] c = \h33 -> \h0B   \* [0x33] = HID_KEY_H
       [] c = \h34 -> \h0A   \* [0x34] = HID_KEY_G
       [] c = \h35 -> \h1C   \* [0x35] = HID_KEY_Y
       [] c = \h36 -> \h23   \* [0x36] = HID_KEY_6
       [] c = \h3A -> \h10   \* [0x3A] = HID_KEY_M
       [] c = \h3B -> \h0D   \* [0x3B] = HID_KEY_J
       [] c = \h3C -> \h18   \* [0x3C] = HID_KEY_U
       [] c = \h3D -> \h24   \* [0x3D] = HID_KEY_7
       [] c = \h3E -> \h25   \* [0x3E] = HID_KEY_8
       [] c = \h41 -> \h36   \* [0x41] = HID_KEY_COMMA
       [] c = \h42 -> \h0E   \* [0x42] = HID_KEY_K
       [] c = \h43 -> \h0C   \* [0x43] = HID_KEY_I
       [] c = \h44 -> \h12   \* [0x44] = HID_KEY_O
       [] c = \h45 -> \h27   \* [0x45] = HID_KEY_0
       [] c = \h46 -> \h26   \* [0x46] = HID_KEY_9
       [] c = \h49 -> \h37   \* [0x49] = HID_KEY_PERIOD
       [] c = \h4A -> \h38   \* [0x4A] = HID_KEY_SLASH
       [] c = \h4B -> \h0F   \* [0x4B] = HID_KEY_L
       [] c = \h4C -> \h33   \* [0x4C] = HID_KEY_SEMICOLON
       [] c = \h4D -> \h13   \* [0x4D] = HID_KEY_P
       [] c = \h4E -> \h2D   \* [0x4E] = HID_KEY_MINUS
       [] c = \h52 -> \h34   \* [0x52] = HID_KEY_APOSTROPHE
       [] c = \h54 -> \h2F   \* [0x54] = HID_KEY_BRACKET_LEFT
       [] c = \h55 -> \h2E   \* [0x55] = HID_KEY_EQUAL
       [] c = \h58 -> \hFC   \* [0x58] = 0xFC
       [] c = \h59 -> \hFB   \* [0x59] = 0xFB
       [] c = \h5A -> \h28   \* [0x5A] = HID_KEY_ENTER
       [] c = \h5B -> \h30   \* [0x5B] = HID_KEY_BRACKET_RIGHT
       [] c = \h5D -> \h31   \* [0x5D] = HID_KEY_BACKSLASH
       [] c = \h66 -> \h2A   \* [0x66] = HID_KEY_BACKSPACE
       [] c = \h69 -> \h59   \* [0x69] = HID_KEY_KEYPAD_1
       [] c = \h6B -> \h5C   \* [0x6B] = HID_KEY_KEYPAD_4
       [] c = \h6C -> \h5F   \* [0x6C] = HID_KEY_KEYPAD_7
       [] c = \h70 -> \h62   \* [0x70] = HID_KEY_KEYPAD_0
       [] c = \h71 -> \h63   \* [0x71] = HID_KEY_KEYPAD_DECIMAL
       [] c = \h72 -> \h5A   \* [0x72] = HID_KEY_KEYPAD_2
       [] c = \h73 -> \h5D   \* [0x73] = HID_KEY_KEYPAD_5
       [] c = \h74 -> \h5E   \* [0x74] = HID_KEY_KEYPAD_6
       [] c = \h75 -> \h60   \* [0x75] = HID_KEY_KEYPAD_8
       [] c = \h76 -> \h29   \* [0x76] = HID_KEY_ESCAPE
       [] c = \h77 -> \h47   \* [0x77] = HID_KEY_SCROLL_LOCK
       [] c = \h78 -> \h44   \* [0x78] = HID_KEY_F11
       [] c = \h79 -> \h57   \* [0x79] = HID_KEY_KEYPAD_ADD
       [] c = \h7A -> \h5B   \* [0x7A] = HID_KEY_KEYPAD_3
       [] c = \h7B -> \h56   \* [0x7B] = HID_KEY_KEYPAD_SUBTRACT
       [] c = \h7C -> \h55   \* [0x7C] = HID_KEY_KEYPAD_MULTIPLY
       [] c = \h7D -> \h61   \* [0x7D] = HID_KEY_KEYPAD_9
       [] c = \h7E -> \h53   \* [0x7E] = HID_KEY_NUM_LOCK
       [] c = \h83 -> \h40   \* [0x83] = HID_KEY_F7
       [] OTHER -> 0 ]   \* 0 = unmapped

extended_scancode_to_hid ==
  [c \in 0..255 |->
     CASE c = \h11 -> \hFA   \* [0x11] = 0xFA
       [] c = \h14 -> \hF9   \* [0x14] = 0xF9
       [] c = \h1F -> \hF8   \* [0x1F] = 0xF8
       [] c = \h27 -> \hF7   \* [0x27] = 0xF7
       [] c = \h2F -> \h65   \* [0x2F] = HID_KEY_APPLICATION
       [] c = \h4A -> \h54   \* [0x4A] = HID_KEY_KEYPAD_DIVIDE
       [] c = \h5A -> \h58   \* [0x5A] = HID_KEY_KEYPAD_ENTER
       [] c = \h69 -> \h4D   \* [0x69] = HID_KEY_END
       [] c = \h6B -> \h50   \* [0x6B] = HID_KEY_ARROW_LEFT
       [] c = \h6C -> \h4A   \* [0x6C] = HID_KEY_HOME
       [] c = \h70 -> \h49   \* [0x70] = HID_KEY_INSERT
       [] c = \h71 -> \h4C   \* [0x71] = HID_KEY_DELETE
       [] c = \h72 -> \h51   \* [0x72] = HID_KEY_ARROW_DOWN
       [] c = \h74 -> \h4F   \* [0x74] = HID_KEY_ARROW_RIGHT
       [] c = \h75 -> \h52   \* [0x75] = HID_KEY_ARROW_UP
       [] c = \h7A -> \h4E   \* [0x7A] = HID_KEY_PAGE_DOWN
       [] c = \h7D -> \h4B   \* [0x7D] = HID_KEY_PAGE_UP
       [] OTHER -> 0 ]   \* 0 = unmapped

\* ------------------------------------------------------------------------
\* State
\* ------------------------------------------------------------------------
VARIABLES
  \* statics of src/ps2.c
  g_modifiers,       \* uint8_t: current modifier key state
  g_keys,            \* uint8_t[6]: up to 6 simultaneous key presses
  g_state_changed,   \* bool: state changed since the last clear
  frame_bit_index,   \* uint8_t: position in the 11-bit frame
  scancode_byte,     \* uint8_t: data bits accumulated so far
  break_pending,     \* bool: 0xF0 received
  extended_pending,  \* bool: 0xE0 received
  last_clk,          \* bool: previous clock level
  \* observations, written where the code calls handle_scancode or completes a frame
  last,              \* arguments of the latest handle_scancode call
  pre,               \* keyboard state just before that call
  fresh,             \* the latest step made that call
  pair,              \* how the latest call relates to the call before it
  base,              \* keyboard state before the earlier call of a related pair
  ncalls,            \* handle_scancode calls since the latest completed frame (0, 1, 2 = more)
  hist,              \* the latest three completed frames, oldest first
  watch,             \* whether the observations above are being recorded
  \* the keyboard's side of the link, as gpio_get samples it
  kb_clk,            \* clock level at the latest poll
  kb_queue,          \* bytes the keyboard has yet to clock out; the head is in flight
  kb_bit,            \* falling edges of the frame in flight produced so far
  kb_framing,        \* start, parity and stop levels of the latest frame, as produced
  kb_sent,           \* the latest three bytes clocked out completely, oldest first
  nframes,           \* bytes the keyboard has queued so far
  kb_held,           \* physical keys currently held down
  kb_key,            \* the key whose make or break sequence is in flight, or "none"
  \* the main loop of src/main.c
  pc,                \* the task the loop runs next: "ps2_task" or "hid_task"
  report,            \* the latest report handed to tud_hid_keyboard_report
  hid_obs            \* what the latest hid_task invocation did

staticVars == <<g_modifiers, g_keys, g_state_changed, frame_bit_index, scancode_byte,
                break_pending, extended_pending, last_clk>>
callVars == <<last, pre, fresh, pair, base, ncalls, hist, watch>>
kbVars == <<kb_clk, kb_queue, kb_bit, kb_framing, kb_sent, nframes, kb_held, kb_key>>
mainVars == <<pc, report, hid_obs>>
vars == <<staticVars, callVars, kbVars, mainVars>>

\* The statics of src/ps2.c and the observations as one record, the value the
\* operators below transform.
Statics ==
  [g_modifiers |-> g_modifiers, g_keys |-> g_keys, g_state_changed |-> g_state_changed,
   frame_bit_index |-> frame_bit_index, scancode_byte |-> scancode_byte,
   break_pending |-> break_pending, extended_pending |-> extended_pending,
   last_clk |-> last_clk,
   last |-> last, pre |-> pre, fresh |-> fresh, pair |-> pair, base |-> base,
   ncalls |-> ncalls, hist |-> hist, watch |-> watch]

\* The statics and observations hold the values of record s.
StaticsAre(s) ==
  /\ g_modifiers = s.g_modifiers
  /\ g_keys = s.g_keys
  /\ g_state_changed = s.g_state_changed
  /\ frame_bit_index = s.frame_bit_index
  /\ scancode_byte = s.scancode_byte
  /\ break_pending = s.break_pending
  /\ extended_pending = s.extended_pending
  /\ last_clk = s.last_clk
  /\ last = s.last
  /\ pre = s.pre
  /\ fresh = s.fresh
  /\ pair = s.pair
  /\ base = s.base
  /\ ncalls = s.ncalls
  /\ hist = s.hist
  /\ watch = s.watch

\* The statics and observations take the values of record s in the next state.
StaticsBecome(s) ==
  /\ g_modifiers' = s.g_modifiers
  /\ g_keys' = s.g_keys
  /\ g_state_changed' = s.g_state_changed
  /\ frame_bit_index' = s.frame_bit_index
  /\ scancode_byte' = s.scancode_byte
  /\ break_pending' = s.break_pending
  /\ extended_pending' = s.extended_pending
  /\ last_clk' = s.last_clk
  /\ last' = s.last
  /\ pre' = s.pre
  /\ fresh' = s.fresh
  /\ pair' = s.pair
  /\ base' = s.base
  /\ ncalls' = s.ncalls
  /\ hist' = s.hist
  /\ watch' = s.watch

\* What ps2_get_modifiers, ps2_get_keys and ps2_state_changed return in statics s.
Kbd(s) == [modifiers |-> s.g_modifiers, keys |-> s.g_keys, changed |-> s.g_state_changed]

NoCall == [code |-> -1, is_break |-> FALSE, is_extended |-> FALSE]
NoKbd == [modifiers |-> -1, keys |-> <<>>, changed |-> FALSE]

\* A step that is about to run code of ps2.c: no call made by it yet.
Entering(s) == [s EXCEPT !.fresh = FALSE]

\* The observations of a handle_scancode(code, is_break, is_extended) call made
\* in s: the arguments, the keyboard state before it, and its relation to the
\* call before it (a press of the same key followed by this release or press).
observe_call(s, code, is_break, is_extended) ==
  LET c == [code |-> code, is_break |-> is_break, is_extended |-> is_extended]
      related == /\ s.last # NoCall
                 /\ s.last.code = code /\ s.last.is_extended = is_extended
                 /\ ~s.last.is_break
  IN  IF ~s.watch THEN s
      ELSE [s EXCEPT !.last = c,
                     !.pre = Kbd(s),
                     !.fresh = TRUE,
                     !.pair = IF related /\ is_break THEN "press_release"
                              ELSE IF related THEN "press_press"
                              ELSE "other",
                     !.base = IF related THEN s.pre ELSE NoKbd,
                     !.ncalls = IF @ < 2 THEN @ + 1 ELSE 2]

\* The latest three entries of a sequence.
Latest3(seq) == IF Len(seq) > 3 THEN Tail(seq) ELSE seq

\* The observations of a frame completed in s (code, flags and keyboard state at
\* the stop bit) that left t.
observe_frame(s, t) ==
  IF ~t.watch THEN t ELSE
  [t EXCEPT !.hist = Latest3(Append(@,
                [code |-> s.scancode_byte,
                 break_in |-> s.break_pending, extended_in |-> s.extended_pending,
                 kbd_in |-> Kbd(s), kbd_out |-> Kbd(t),
                 break_out |-> t.break_pending, extended_out |-> t.extended_pending,
                 ncalls |-> t.ncalls,
                 call |-> IF t.fresh THEN t.last ELSE NoCall])),
            !.ncalls = 0]

\* ------------------------------------------------------------------------
\* Keyboard state tracker
\* ------------------------------------------------------------------------
\* A mutant of get_modifier_mask: the masks of Right Shift and Right Alt are
\* exchanged.
get_modifier_mask_swapped(hid_code) ==
  CASE hid_code = \hFF -> HID_MOD_LEFT_ALT
    [] hid_code = \hFE -> HID_MOD_LEFT_SHIFT
    [] hid_code = \hFD -> HID_MOD_LEFT_CTRL
    [] hid_code = \hFC -> 0
    [] hid_code = \hFB -> HID_MOD_RIGHT_ALT
    [] hid_code = \hFA -> HID_MOD_RIGHT_SHIFT
    [] hid_code = \hF9 -> HID_MOD_RIGHT_CTRL
    [] hid_code = \hF8 -> HID_MOD_LEFT_GUI
    [] hid_code = \hF7 -> HID_MOD_RIGHT_GUI
    [] OTHER -> 0

get_modifier_mask(hid_code) ==
  CASE hid_code = \hFF -> HID_MOD_LEFT_ALT
    [] hid_code = \hFE -> HID_MOD_LEFT_SHIFT
    [] hid_code = \hFD -> HID_MOD_LEFT_CTRL
    [] hid_code = \hFC -> 0
    [] hid_code = \hFB -> HID_MOD_RIGHT_SHIFT
    [] hid_code = \hFA -> HID_MOD_RIGHT_ALT
    [] hid_code = \hF9 -> HID_MOD_RIGHT_CTRL
    [] hid_code = \hF8 -> HID_MOD_LEFT_GUI
    [] hid_code = \hF7 -> HID_MOD_RIGHT_GUI
    [] OTHER -> 0

\* A mutant of caps_lock_remap: the sentinel 0xFC is stored as it is.
caps_lock_remap_missing(hid_code) == hid_code

\* if (hid_code == 0xFC) hid_code = HID_KEY_CAPS_LOCK;
caps_lock_remap(hid_code) == IF hid_code = \hFC THEN HID_KEY_CAPS_LOCK ELSE hid_code

\* for (int i = 0; i < 6; i++) if (g_keys[i] == value): the first index i, counted
\* from the given start, with keys[i] = value; KEYS_LEN when the loop ends without one.
RECURSIVE FindKey(_, _, _)
FindKey(keys, value, i) ==
  IF i >= KEYS_LEN THEN KEYS_LEN
  ELSE IF keys[i] = value THEN i
  ELSE FindKey(keys, value, i + 1)

\* A mutant of press_modifier: changed is set on every modifier press.
press_modifier_always_changed(s, mod_mask) ==
  [s EXCEPT !.g_modifiers = Or8(@, mod_mask), !.g_state_changed = TRUE]

\* press_key, the modifier branch.
press_modifier(s, mod_mask) ==
  IF And8(s.g_modifiers, mod_mask) = 0
  THEN [s EXCEPT !.g_modifiers = Or8(@, mod_mask), !.g_state_changed = TRUE]
  ELSE s

\* A mutant of press_slot: with no empty slot the last slot is overwritten.
press_slot_overwrite(s, hid_code) ==
  LET held == FindKey(s.g_keys, hid_code, 0)
      slot == FindKey(s.g_keys, 0, 0)
  IN  IF held < KEYS_LEN THEN s
      ELSE IF slot < KEYS_LEN
      THEN [s EXCEPT !.g_keys[slot] = hid_code, !.g_state_changed = TRUE]
      ELSE [s EXCEPT !.g_keys[KEYS_LEN - 1] = hid_code, !.g_state_changed = TRUE]

\* A mutant of press_slot: the already-pressed loop is missing.
press_slot_no_dedup(s, hid_code) ==
  LET slot == FindKey(s.g_keys, 0, 0)
  IN  IF slot < KEYS_LEN
      THEN [s EXCEPT !.g_keys[slot] = hid_code, !.g_state_changed = TRUE]
      ELSE s

\* A mutant of press_slot: the empty slot is searched from the last index down.
press_slot_last_free(s, hid_code) ==
  LET held == FindKey(s.g_keys, hid_code, 0)
      empty == {i \in 0..(KEYS_LEN - 1) : s.g_keys[i] = 0}
      slot == IF empty = {} THEN KEYS_LEN
              ELSE CHOOSE i \in empty : \A j \in empty : j <= i
  IN  IF held < KEYS_LEN THEN s
      ELSE IF slot < KEYS_LEN
      THEN [s EXCEPT !.g_keys[slot] = hid_code, !.g_state_changed = TRUE]
      ELSE s

\* press_key, the two loops over g_keys.
press_slot(s, hid_code) ==
  LET held == FindKey(s.g_keys, hid_code, 0)
      slot == FindKey(s.g_keys, 0, 0)
  IN  IF held < KEYS_LEN THEN s
      ELSE IF slot < KEYS_LEN
      THEN [s EXCEPT !.g_keys[slot] = hid_code, !.g_state_changed = TRUE]
      ELSE s

\* A mutant of press_key: the modifier branch does not return.
press_key_fallthrough(s, hid_code) ==
  IF hid_code = 0 THEN s
  ELSE
    LET mod_mask == get_modifier_mask(hid_code) IN
    press_slot(IF mod_mask # 0 THEN press_modifier(s, mod_mask) ELSE s,
               caps_lock_remap(hid_code))

press_key(s, hid_code) ==
  IF hid_code = 0 THEN s
  ELSE
    LET mod_mask == get_modifier_mask(hid_code) IN
    IF mod_mask # 0 THEN press_modifier(s, mod_mask)
    ELSE press_slot(s, caps_lock_remap(hid_code))

\* A mutant of release_modifier: the mask is not complemented.
release_modifier_no_complement(s, mod_mask) ==
  IF And8(s.g_modifiers, mod_mask) # 0
  THEN [s EXCEPT !.g_modifiers = And8(@, mod_mask), !.g_state_changed = TRUE]
  ELSE s

\* release_key, the modifier branch.
release_modifier(s, mod_mask) ==
  IF And8(s.g_modifiers, mod_mask) # 0
  THEN [s EXCEPT !.g_modifiers = And8(@, Not8(mod_mask)), !.g_state_changed = TRUE]
  ELSE s

\* A mutant of release_slot: changed is set whether or not the key was found.
release_slot_always_changed(s, hid_code) ==
  LET held == FindKey(s.g_keys, hid_code, 0)
  IN  IF held < KEYS_LEN
      THEN [s EXCEPT !.g_keys[held] = 0, !.g_state_changed = TRUE]
      ELSE [s EXCEPT !.g_state_changed = TRUE]

\* A mutant of release_slot: the slot is zeroed without setting changed.
release_slot_changed_not_set(s, hid_code) ==
  LET held == FindKey(s.g_keys, hid_code, 0)
  IN  IF held < KEYS_LEN
      THEN [s EXCEPT !.g_keys[held] = 0]
      ELSE s

\* release_key, the loop over g_keys.
release_slot(s, hid_code) ==
  LET held == FindKey(s.g_keys, hid_code, 0)
  IN  IF held < KEYS_LEN
      THEN [s EXCEPT !.g_keys[held] = 0, !.g_state_changed = TRUE]
      ELSE s

release_key(s, hid_code) ==
  IF hid_code = 0 THEN s
  ELSE
    LET mod_mask == get_modifier_mask(hid_code) IN
    IF mod_mask # 0 THEN release_modifier(s, mod_mask)
    ELSE release_slot(s, caps_lock_remap(hid_code))

\* A mutant of handle_scancode: an unknown scancode marks the state changed.
handle_scancode_unknown_sets_changed(s, code, is_break, is_extended) ==
  LET hid_code == IF is_extended THEN extended_scancode_to_hid[code]
                  ELSE scancode_to_hid[code]
  IN  IF hid_code = 0 THEN [s EXCEPT !.g_state_changed = TRUE]
      ELSE IF is_break THEN release_key(s, hid_code)
      ELSE press_key(s, hid_code)

\* A mutant of handle_scancode: an extended code the extended table does not map
\* is looked up in the plain table.
handle_scancode_falls_back(s, code, is_break, is_extended) ==
  LET hid_code == IF is_extended /\ extended_scancode_to_hid[code] # 0
                  THEN extended_scancode_to_hid[code]
                  ELSE scancode_to_hid[code]
  IN  IF hid_code = 0 THEN s
      ELSE IF is_break THEN release_key(s, hid_code)
      ELSE press_key(s, hid_code)

\* A mutant of handle_scancode: the plain table is used for extended codes too.
handle_scancode_plain_only(s, code, is_break, is_extended) ==
  LET hid_code == scancode_to_hid[code]
  IN  IF hid_code = 0 THEN s
      ELSE IF is_break THEN release_key(s, hid_code)
      ELSE press_key(s, hid_code)

handle_scancode(s, code, is_break, is_extended) ==
  LET hid_code == IF is_extended THEN extended_scancode_to_hid[code]
                  ELSE scancode_to_hid[code]
  IN  IF hid_code = 0 THEN s
      ELSE IF is_break THEN release_key(s, hid_code)
      ELSE press_key(s, hid_code)

\* A call of handle_scancode, observed.
call_handle_scancode(s, code, is_break, is_extended) ==
  handle_scancode(observe_call(s, code, is_break, is_extended),
                  code, is_break, is_extended)

\* ------------------------------------------------------------------------
\* Public interface of src/ps2.c
\* ------------------------------------------------------------------------
\* The statics ps2_init leaves, with nothing observed yet; clk is the level
\* gpio_get(PS2_CLOCK_PIN) returns.
ps2_init(clk) ==
  [g_modifiers |-> 0, g_keys |-> [i \in 0..(KEYS_LEN - 1) |-> 0],
   g_state_changed |-> FALSE, frame_bit_index |-> 0, scancode_byte |-> 0,
   break_pending |-> FALSE, extended_pending |-> FALSE, last_clk |-> clk,
   last |-> NoCall, pre |-> NoKbd, fresh |-> FALSE, pair |-> "none", base |-> NoKbd,
   ncalls |-> 0, hist |-> <<>>, watch |-> TRUE]

\* A mutant of falling_edge: a bit is sampled whenever the clock is low.
falling_edge_level(s, clk) == ~clk

\* if (last_clk && !clk)
falling_edge(s, clk) == s.last_clk /\ ~clk

\* A mutant of stop_bit: the break prefix resets extended_pending.
stop_bit_break_resets_extended(s, clk) ==
  LET code == s.scancode_byte
      t == IF code = \hF0
           THEN [s EXCEPT !.break_pending = TRUE, !.extended_pending = FALSE]
           ELSE IF code = \hE0 THEN [s EXCEPT !.extended_pending = TRUE]
           ELSE [call_handle_scancode(s, code, s.break_pending, s.extended_pending)
                   EXCEPT !.break_pending = FALSE, !.extended_pending = FALSE]
  IN  observe_frame(s, [t EXCEPT !.frame_bit_index = 0, !.scancode_byte = 0,
                                 !.last_clk = clk])

\* A mutant of stop_bit: the pending flags are cleared only after a mapped code.
stop_bit_unmapped_keeps_flags(s, clk) ==
  LET code == s.scancode_byte
      hid_code == IF s.extended_pending THEN extended_scancode_to_hid[code]
                  ELSE scancode_to_hid[code]
      called == call_handle_scancode(s, code, s.break_pending, s.extended_pending)
      t == IF code = \hF0 THEN [s EXCEPT !.break_pending = TRUE]
           ELSE IF code = \hE0 THEN [s EXCEPT !.extended_pending = TRUE]
           ELSE IF hid_code = 0 THEN called
           ELSE [called EXCEPT !.break_pending = FALSE, !.extended_pending = FALSE]
  IN  observe_frame(s, [t EXCEPT !.frame_bit_index = 0, !.scancode_byte = 0,
                                 !.last_clk = clk])

\* A mutant of stop_bit: extended_pending is not cleared after the call.
stop_bit_keeps_extended(s, clk) ==
  LET code == s.scancode_byte
      t == IF code = \hF0 THEN [s EXCEPT !.break_pending = TRUE]
           ELSE IF code = \hE0 THEN [s EXCEPT !.extended_pending = TRUE]
           ELSE [call_handle_scancode(s, code, s.break_pending, s.extended_pending)
                   EXCEPT !.break_pending = FALSE]
  IN  observe_frame(s, [t EXCEPT !.frame_bit_index = 0, !.scancode_byte = 0,
                                 !.last_clk = clk])

\* The stop-bit branch of ps2_task (frame_bit_index == 10), up to its return.
stop_bit(s, clk) ==
  LET code == s.scancode_byte
      t == IF code = \hF0 THEN [s EXCEPT !.break_pending = TRUE]
           ELSE IF code = \hE0 THEN [s EXCEPT !.extended_pending = TRUE]
           ELSE [call_handle_scancode(s, code, s.break_pending, s.extended_pending)
                   EXCEPT !.break_pending = FALSE, !.extended_pending = FALSE]
  IN  observe_frame(s, [t EXCEPT !.frame_bit_index = 0, !.scancode_byte = 0,
                                 !.last_clk = clk])

\* A mutant of shift_in: the byte is assembled most significant bit first.
shift_in_msb_first(byte, data_bit) ==
  ((byte * 2) % 256) + (IF data_bit THEN 1 ELSE 0)

\* scancode_byte >>= 1; if (data_bit) scancode_byte |= 0x80;
shift_in(byte, data_bit) ==
  IF data_bit THEN Or8(byte \div 2, \h80) ELSE byte \div 2

\* A mutant of ps2_task: the frame completes only when the stop bit is 1.
ps2_task_requires_stop_bit(s, clk, data_bit) ==
  IF falling_edge(s, clk) THEN
    IF s.frame_bit_index = 0 THEN
      [s EXCEPT !.frame_bit_index = @ + 1, !.last_clk = clk]
    ELSE IF s.frame_bit_index >= 1 /\ s.frame_bit_index <= 8 THEN
      [s EXCEPT !.scancode_byte = shift_in(@, data_bit),
                !.frame_bit_index = @ + 1, !.last_clk = clk]
    ELSE IF s.frame_bit_index = 9 THEN
      [s EXCEPT !.frame_bit_index = @ + 1, !.last_clk = clk]
    ELSE IF s.frame_bit_index = 10 /\ data_bit THEN stop_bit(s, clk)
    ELSE [s EXCEPT !.frame_bit_index = (@ + 1) % 256, !.last_clk = clk]
  ELSE [s EXCEPT !.last_clk = clk]

\* One ps2_task call that reads clk from the clock pin and, on a falling edge,
\* data_bit from the data pin.
ps2_task(s, clk, data_bit) ==
  IF falling_edge(s, clk) THEN
    IF s.frame_bit_index = 0 THEN
      [s EXCEPT !.frame_bit_index = @ + 1, !.last_clk = clk]
    ELSE IF s.frame_bit_index >= 1 /\ s.frame_bit_index <= 8 THEN
      [s EXCEPT !.scancode_byte = shift_in(@, data_bit),
                !.frame_bit_index = @ + 1, !.last_clk = clk]
    ELSE IF s.frame_bit_index = 9 THEN
      [s EXCEPT !.frame_bit_index = @ + 1, !.last_clk = clk]
    ELSE IF s.frame_bit_index = 10 THEN stop_bit(s, clk)
    ELSE [s EXCEPT !.frame_bit_index = (@ + 1) % 256, !.last_clk = clk]
  ELSE [s EXCEPT !.last_clk = clk]

ps2_clear_changed(s) == [s EXCEPT !.g_state_changed = FALSE]

\* ------------------------------------------------------------------------
\* Reading the observations
\* ------------------------------------------------------------------------
\* The table value handle_scancode looks up for call c.
Hid(c) ==
  IF c.is_extended THEN extended_scancode_to_hid[c.code] ELSE scancode_to_hid[c.code]

\* c is a call with a mapped scancode.
Mapped(c) == c.code \in 0..255 /\ Hid(c) # 0

\* c is a call for one of the eight modifier keys.
IsModifier(c) == Mapped(c) /\ get_modifier_mask(Hid(c)) # 0

\* c is a call for a key that lives in g_keys (an ordinary key or Caps Lock).
IsSlotKey(c) == Mapped(c) /\ get_modifier_mask(Hid(c)) = 0

\* The identity a slot key is stored under.
Identity(c) == caps_lock_remap(Hid(c))

InKeys(keys, id) == \E i \in DOMAIN keys : keys[i] = id

Full(keys) == \A i \in DOMAIN keys : keys[i] # 0

\* The key of call c is tracked in keyboard state k: its bit is set, or its
\* identity is in a slot.
Tracked(k, c) ==
  IF IsModifier(c) THEN And8(k.modifiers, get_modifier_mask(Hid(c))) # 0
  ELSE InKeys(k.keys, Identity(c))

SameKey(c, d) == c.code = d.code /\ c.is_extended = d.is_extended

\* The keyboard is idle and has sent nothing.
KbIdle ==
  /\ kb_clk = TRUE
  /\ kb_queue = <<>>
  /\ kb_bit = 0
  /\ kb_framing = <<>>
  /\ kb_sent = <<>>
  /\ nframes = 0
  /\ kb_held = {}
  /\ kb_key = "none"

NoReport == [modifiers |-> -1, keys |-> <<>>]
NoHid == [sent |-> FALSE, cleared |-> FALSE]

\* The main loop is about to run ps2_task for the first time.
MainIdle ==
  /\ pc = "ps2_task"
  /\ report = NoReport
  /\ hid_obs = NoHid

\* ------------------------------------------------------------------------
\* Dispatch-level specification: handle_scancode and ps2_clear_changed applied
\* to the keyboard state, over the scancodes of TrackerCodes.
\* ------------------------------------------------------------------------
\* <<is_extended, code>> pairs the tracker is driven with: A, Caps Lock, Up arrow,
\* Left Ctrl, Right Ctrl, Left Shift, and two pairs with table value 0.
TrackerCodes ==
  { <<FALSE, \h1C>>, <<FALSE, \h58>>, <<TRUE, \h75>>,
    <<FALSE, \h14>>, <<TRUE, \h14>>, <<FALSE, \h12>>,
    <<TRUE, \h12>>, <<FALSE, \h00>> }

\* Make codes of keys that were pressed before the run starts and stay held
\* throughout it (F1, F2, F3, F4, F5, F6): they occupy slots of g_keys.
BackgroundCodes == << \h05, \h06, \h04, \h0C, \h03, \h0B >>

\* At most this many background keys are held.
MaxBackground == 4

\* The statics after the first n background keys were pressed, starting from s.
RECURSIVE PressBackground(_, _)
PressBackground(s, n) ==
  IF n = 0 THEN s
  ELSE handle_scancode(PressBackground(s, n - 1), BackgroundCodes[n], FALSE, FALSE)

InitKeys ==
  /\ \E n \in 0..MaxBackground :
       /\ n <= Len(BackgroundCodes)
       /\ StaticsAre(PressBackground(ps2_init(TRUE), n))
  /\ KbIdle
  /\ MainIdle

\* handle_scancode is called with these arguments.
HandleScancode(code, is_break, is_extended) ==
  /\ StaticsBecome(call_handle_scancode(Entering(Statics), code, is_break, is_extended))
  /\ UNCHANGED <<kbVars, mainVars>>

\* ps2_clear_changed is called.
ClearChanged ==
  /\ StaticsBecome(ps2_clear_changed(Entering(Statics)))
  /\ UNCHANGED <<kbVars, mainVars>>

NextKeys ==
  \/ \E k \in TrackerCodes, is_break \in BOOLEAN : HandleScancode(k[2], is_break, k[1])
  \/ ClearChanged

SpecKeys == InitKeys /\ [][NextKeys]_vars

\* ------------------------------------------------------------------------
\* Claims about the keyboard state tracker (checked under SpecKeys)
\* ------------------------------------------------------------------------

\* C1 as stated: a press of a mapped scancode S followed by the release of S
\* returns keys and modifiers to their values before the press, from any state.
C1_RoundTrip ==
  (pair = "press_release" /\ Mapped(last))
    => (g_keys = base.keys /\ g_modifiers = base.modifiers)

\* C1 amended: a press of a mapped scancode S whose key is not tracked before the
\* press (identity in no slot, modifier bit clear), followed by the release of S,
\* returns keys and modifiers to their values before the press.
C1_RoundTripUntracked ==
  (pair = "press_release" /\ Mapped(last) /\ ~Tracked(base, last))
    => (g_keys = base.keys /\ g_modifiers = base.modifiers)

\* A press that took a slot or set a bit was followed by the release of the same key.
C1_Witness ==
  /\ pair = "press_release" /\ Mapped(last) /\ fresh
  /\ ~Tracked(base, last)
  /\ Tracked(pre, last)
  /\ Kbd(Statics) # pre

\* C3: the second of two consecutive presses of a mapped scancode leaves keys and
\* modifiers as they were, and leaves changed false when it was false before it.
C3_IdempotentPress ==
  (pair = "press_press" /\ Mapped(last))
    => /\ g_keys = pre.keys
       /\ g_modifiers = pre.modifiers
       /\ (fresh /\ ~pre.changed) => ~g_state_changed

\* A modifier was pressed twice in a row, with changed cleared in between.
C3_Witness ==
  /\ pair = "press_press" /\ IsModifier(last) /\ fresh
  /\ ~Tracked(base, last)
  /\ Tracked(pre, last)
  /\ ~pre.changed

\* C4: g_keys has exactly the six locations 0..5, so at most six slots are
\* occupied; a press of an ordinary key that is in no slot while all six slots are
\* non-zero leaves keys, modifiers and changed as they were.
C4_RolloverCeiling ==
  /\ DOMAIN g_keys = 0..5
  /\ Cardinality({i \in DOMAIN g_keys : g_keys[i] # 0}) <= 6
  /\ (fresh /\ IsSlotKey(last) /\ ~last.is_break
        /\ Full(pre.keys) /\ ~InKeys(pre.keys, Identity(last)))
       => Kbd(Statics) = pre

\* A seventh distinct key was pressed while six were held, with changed false.
C4_Witness ==
  /\ fresh /\ IsSlotKey(last) /\ ~last.is_break
  /\ Full(pre.keys) /\ ~InKeys(pre.keys, Identity(last))
  /\ Cardinality({pre.keys[i] : i \in DOMAIN pre.keys}) = 6
  /\ ~pre.changed

\* C6: each non-zero key identity is in at most one slot of g_keys.
C6_NoDuplicateKeys ==
  \A i, j \in DOMAIN g_keys : (i # j /\ g_keys[i] # 0) => g_keys[i] # g_keys[j]

\* The make code of a key held in slot 0 was repeated.
C6_Witness ==
  /\ fresh /\ IsSlotKey(last) /\ ~last.is_break
  /\ pre.keys[0] = Identity(last)
  /\ \E i \in DOMAIN g_keys : g_keys[i] = 0

\* C8: a call for a modifier scancode leaves every slot of keys as it was, and a
\* call for a mapped non-modifier scancode leaves the modifiers byte as it was.
C8_ModifierIndependence ==
  /\ IsModifier(last) => g_keys = pre.keys
  /\ IsSlotKey(last) => g_modifiers = pre.modifiers

\* A modifier press set its bit while a slot was free and another was occupied.
C8_Witness ==
  /\ fresh /\ IsModifier(last) /\ ~last.is_break
  /\ g_modifiers # pre.modifiers
  /\ ~Full(g_keys)
  /\ \E i \in DOMAIN g_keys : g_keys[i] # 0

\* C9: the release of a mapped key that is not tracked (identity in no slot,
\* modifier bit clear) leaves keys, modifiers and changed as they were.
C9_IdempotentRelease ==
  (fresh /\ Mapped(last) /\ last.is_break /\ ~Tracked(pre, last))
    => Kbd(Statics) = pre

\* A key whose press was dropped at the rollover ceiling was released, with
\* changed false.
C9_Witness ==
  /\ fresh /\ pair = "press_release" /\ IsSlotKey(last)
  /\ ~Tracked(base, last) /\ ~Tracked(pre, last)
  /\ Full(pre.keys)
  /\ ~pre.changed

\* ------------------------------------------------------------------------
\* The link: a keyboard clocks bytes out as 11-bit frames (start, 8 data bits
\* least significant first, parity, stop) and ps2_task polls the two lines.
\* ------------------------------------------------------------------------
\* The odd-parity bit of a byte: 1 when the byte has an even number of 1 bits.
OddParity(byte) ==
  (Bit(byte, 0) + Bit(byte, 1) + Bit(byte, 2) + Bit(byte, 3)
   + Bit(byte, 4) + Bit(byte, 5) + Bit(byte, 6) + Bit(byte, 7)) % 2 = 0

\* The levels the data line may have at the falling edge that carries frame bit
\* `bit` of `byte`: the data bits are the byte's, least significant first; the
\* start, parity and stop bits are correct when wellformed, arbitrary otherwise.
kb_data_levels(byte, bit, wellformed) ==
  IF bit >= 1 /\ bit <= 8 THEN {Bit(byte, bit - 1) = 1}
  ELSE IF ~wellformed THEN BOOLEAN
  ELSE IF bit = 0 THEN {FALSE}
  ELSE IF bit = 9 THEN {OddParity(byte)}
  ELSE {TRUE}

\* One ps2_task call, which samples the levels the keyboard drives: the clock
\* idles high, goes low once for each bit of the frame in flight and may stay at
\* a level over several polls.
PollLines(wellformed) ==
  \E clk \in BOOLEAN :
    /\ kb_queue = <<>> => clk
    /\ LET edge == kb_clk /\ ~clk IN
       \E data_bit \in (IF edge THEN kb_data_levels(Head(kb_queue), kb_bit, wellformed)
                        ELSE BOOLEAN) :
         /\ StaticsBecome(ps2_task(Entering(Statics), clk, data_bit))
         /\ kb_clk' = clk
         /\ IF edge
            THEN /\ kb_bit' = IF kb_bit = 10 THEN 0 ELSE kb_bit + 1
                 /\ kb_queue' = IF kb_bit = 10 THEN Tail(kb_queue) ELSE kb_queue
                 /\ kb_sent' = IF kb_bit = 10
                               THEN Latest3(Append(kb_sent, Head(kb_queue)))
                               ELSE kb_sent
                 /\ kb_framing' = IF kb_bit = 0 THEN <<data_bit>>
                                  ELSE IF kb_bit >= 9 THEN Append(kb_framing, data_bit)
                                  ELSE kb_framing
            ELSE UNCHANGED <<kb_bit, kb_queue, kb_sent, kb_framing>>
         /\ UNCHANGED <<nframes, kb_held, kb_key>>

\* ps2_task is called on its own.
Poll(wellformed) ==
  /\ PollLines(wellformed)
  /\ UNCHANGED mainVars

\* ---- SpecLink: any sequence of up to MaxFrames bytes of LinkBytes ----
\* Break prefix, extended prefix, two codes mapped in both tables: 0x14 (Left
\* Ctrl, extended Right Ctrl) and 0x75 (keypad 8, extended Up arrow), and 0x12
\* (Left Shift), which has table value 0 in the extended table.
LinkBytes == { \hF0, \hE0, \h14, \h75, \h12 }

\* The keyboard clocks out at most this many bytes.
MaxFrames == 5

\* The idle keyboard starts to clock out byte b, unless it has sent max bytes.
KbQueue(b, max) ==
  /\ kb_queue = <<>>
  /\ nframes < max
  /\ kb_queue' = <<b>>
  /\ nframes' = nframes + 1
  /\ StaticsBecome(Entering(Statics))
  /\ UNCHANGED <<kb_clk, kb_bit, kb_framing, kb_sent, kb_held, kb_key>>
  /\ UNCHANGED mainVars

KbSend(b) == KbQueue(b, MaxFrames)

InitLink ==
  /\ StaticsAre(ps2_init(TRUE))
  /\ KbIdle
  /\ MainIdle

NextLink ==
  \/ \E b \in LinkBytes : KbSend(b)
  \/ Poll(TRUE)
  \/ ClearChanged

SpecLink == InitLink /\ [][NextLink]_vars

\* ---- SpecFrame: one frame with any data byte and any start, parity, stop ----
InitFrame ==
  /\ StaticsAre(ps2_init(TRUE))
  /\ kb_clk = TRUE
  /\ kb_queue \in { <<v>> : v \in 0..255 }
  /\ kb_bit = 0
  /\ kb_framing = <<>>
  /\ kb_sent = <<>>
  /\ nframes = 1
  /\ kb_held = {}
  /\ kb_key = "none"
  /\ MainIdle

NextFrame == Poll(FALSE)

SpecFrame == InitFrame /\ [][NextFrame]_vars

\* ------------------------------------------------------------------------
\* Claims about the frame decoder
\* ------------------------------------------------------------------------
\* The statics s with the keyboard state k in place of its own.
WithKbd(s, k) ==
  [s EXCEPT !.g_modifiers = k.modifiers, !.g_keys = k.keys, !.g_state_changed = k.changed]

\* The latest three completed frames were 0xE0, 0xF0 and a code that is no
\* prefix, and both pending flags were clear when the first of them completed.
ExtendedBreakSeen ==
  /\ Len(hist) = 3
  /\ hist[1].code = \hE0 /\ ~hist[1].break_in /\ ~hist[1].extended_in
  /\ hist[2].code = \hF0
  /\ hist[3].code \notin {\hE0, \hF0}

\* C5 (under SpecLink): the frames 0xE0, 0xF0, S received with both pending flags
\* clear make exactly one handle_scancode call, handle_scancode(S, true, true),
\* made when the third frame completes; the keyboard state after it is the one
\* that call produces from the state before it; the two prefix frames change no
\* keyboard state; both pending flags are false afterwards.
C5_ExtendedBreak ==
  ExtendedBreakSeen =>
    /\ hist[1].ncalls = 0 /\ hist[1].call = NoCall
    /\ hist[2].ncalls = 0 /\ hist[2].call = NoCall
    /\ hist[3].ncalls = 1
    /\ hist[3].call = [code |-> hist[3].code, is_break |-> TRUE, is_extended |-> TRUE]
    /\ hist[1].kbd_out = hist[1].kbd_in
    /\ hist[2].kbd_out = hist[2].kbd_in
    /\ hist[2].kbd_in.keys = hist[1].kbd_out.keys
    /\ hist[2].kbd_in.modifiers = hist[1].kbd_out.modifiers
    /\ hist[3].kbd_in.keys = hist[2].kbd_out.keys
    /\ hist[3].kbd_in.modifiers = hist[2].kbd_out.modifiers
    /\ hist[3].kbd_out
         = Kbd(handle_scancode(WithKbd(Statics, hist[3].kbd_in), hist[3].code, TRUE, TRUE))
    /\ hist[2].break_out /\ hist[2].extended_out
    /\ ~hist[3].break_out /\ ~hist[3].extended_out

\* 0xE0 0xF0 0x75 released the Up arrow that 0xE0 0x75 had pressed, after changed
\* had been cleared.
C5_Witness ==
  /\ ExtendedBreakSeen
  /\ hist[3].code = \h75
  /\ InKeys(hist[3].kbd_in.keys, \h52)
  /\ ~hist[3].kbd_in.changed
  /\ ~InKeys(g_keys, \h52)
  /\ g_state_changed

\* C10 (under SpecFrame): whatever the start, parity and stop levels, the decoder
\* completes a frame exactly when the keyboard has produced the 11 falling edges
\* of a byte, and the code of that frame is the byte, whose bit k-1 travelled as
\* frame bit k.
C10_FrameRobustness ==
  /\ frame_bit_index = kb_bit
  /\ Len(hist) = Len(kb_sent)
  /\ \A i \in 1..Len(hist) : hist[i].code = kb_sent[i]

\* The byte 0x1C was received from a frame with start bit 1, a wrong parity bit
\* and stop bit 0.
C10_Witness ==
  /\ Len(hist) = 1
  /\ hist[1].code = \h1C
  /\ kb_sent = << \h1C >>
  /\ kb_framing = <<TRUE, TRUE, FALSE>>

\* ------------------------------------------------------------------------
\* SpecKbd: a keyboard whose keys are pressed, repeat while held and are released;
\* every frame of a make or break sequence reaches ps2_task intact.
\* ------------------------------------------------------------------------
ModifierKeys == {"LCtrl", "LShift", "LAlt", "LGui", "RCtrl", "RShift", "RAlt", "RGui"}

\* Ordinary keys (F1..F6): pressed in this order and released in the reverse order.
OrdinaryKeys == <<"F1", "F2", "F3", "F4", "F5", "F6">>

\* Print Screen, whose sequences carry the extended code 0x12.
PhysicalKeys ==
  ModifierKeys \cup {OrdinaryKeys[i] : i \in 1..Len(OrdinaryKeys)} \cup {"PrtSc"}

\* <<is_extended, code>> of a key's Set 2 scancode.
KeyScan(k) ==
  CASE k = "LCtrl"  -> <<FALSE, \h14>>
    [] k = "LShift" -> <<FALSE, \h12>>
    [] k = "LAlt"   -> <<FALSE, \h11>>
    [] k = "LGui"   -> <<TRUE, \h1F>>
    [] k = "RCtrl"  -> <<TRUE, \h14>>
    [] k = "RShift" -> <<FALSE, \h59>>
    [] k = "RAlt"   -> <<TRUE, \h11>>
    [] k = "RGui"   -> <<TRUE, \h27>>
    [] k = "F1"     -> <<FALSE, \h05>>
    [] k = "F2"     -> <<FALSE, \h06>>
    [] k = "F3"     -> <<FALSE, \h04>>
    [] k = "F4"     -> <<FALSE, \h0C>>
    [] k = "F5"     -> <<FALSE, \h03>>
    [] k = "F6"     -> <<FALSE, \h0B>>
    [] k = "PrtSc"  -> <<TRUE, \h7C>>

\* The bit of the modifiers byte that stands for a modifier key.
KeyBit(k) ==
  CASE k = "LCtrl"  -> HID_MOD_LEFT_CTRL
    [] k = "LShift" -> HID_MOD_LEFT_SHIFT
    [] k = "LAlt"   -> HID_MOD_LEFT_ALT
    [] k = "LGui"   -> HID_MOD_LEFT_GUI
    [] k = "RCtrl"  -> HID_MOD_RIGHT_CTRL
    [] k = "RShift" -> HID_MOD_RIGHT_SHIFT
    [] k = "RAlt"   -> HID_MOD_RIGHT_ALT
    [] k = "RGui"   -> HID_MOD_RIGHT_GUI

\* The bytes of a key's make code.
MakeCode(k) ==
  IF k = "PrtSc" THEN << \hE0, \h12, \hE0, \h7C >>
  ELSE IF KeyScan(k)[1] THEN << \hE0, KeyScan(k)[2] >>
  ELSE << KeyScan(k)[2] >>

\* The bytes of a key's break sequence.
BreakCode(k) ==
  IF k = "PrtSc" THEN << \hE0, \hF0, \h7C, \hE0, \hF0, \h12 >>
  ELSE IF KeyScan(k)[1] THEN << \hE0, \hF0, KeyScan(k)[2] >>
  ELSE << \hF0, KeyScan(k)[2] >>

\* Position of an ordinary key in OrdinaryKeys, 0 for any other key.
OrdinaryIndex(k) ==
  IF \E i \in 1..Len(OrdinaryKeys) : OrdinaryKeys[i] = k
  THEN CHOOSE i \in 1..Len(OrdinaryKeys) : OrdinaryKeys[i] = k
  ELSE 0

\* A key goes down while the keyboard is idle: its make code is queued.
KeyDown(k) ==
  /\ kb_queue = <<>>
  /\ k \notin kb_held
  /\ OrdinaryIndex(k) > 1 => OrdinaryKeys[OrdinaryIndex(k) - 1] \in kb_held
  /\ kb_held' = kb_held \cup {k}
  /\ kb_queue' = MakeCode(k)
  /\ kb_key' = k
  /\ StaticsBecome(Entering(Statics))
  /\ UNCHANGED <<kb_clk, kb_bit, kb_framing, kb_sent, nframes, mainVars>>

\* A held key repeats while the keyboard is idle: its make code is queued again.
KeyRepeat(k) ==
  /\ kb_queue = <<>>
  /\ k \in kb_held
  /\ kb_queue' = MakeCode(k)
  /\ kb_key' = k
  /\ StaticsBecome(Entering(Statics))
  /\ UNCHANGED <<kb_clk, kb_bit, kb_framing, kb_sent, nframes, kb_held, mainVars>>

\* A held key goes up while the keyboard is idle: its break sequence is queued.
KeyUp(k) ==
  /\ kb_queue = <<>>
  /\ k \in kb_held
  /\ (OrdinaryIndex(k) > 0 /\ OrdinaryIndex(k) < Len(OrdinaryKeys))
       => OrdinaryKeys[OrdinaryIndex(k) + 1] \notin kb_held
  /\ kb_held' = kb_held \ {k}
  /\ kb_queue' = BreakCode(k)
  /\ kb_key' = k
  /\ StaticsBecome(Entering(Statics))
  /\ UNCHANGED <<kb_clk, kb_bit, kb_framing, kb_sent, nframes, mainVars>>

\* The statics after the ps2_task calls that sample frame bits bit..10 of a
\* well-formed frame of byte: for each bit one call with the clock low and the
\* bit on the data line, then one call with the clock high again.
RECURSIVE poll_frame(_, _, _)
poll_frame(s, byte, bit) ==
  IF bit > 10 THEN s
  ELSE LET data_bit == CHOOSE d \in kb_data_levels(byte, bit, TRUE) : TRUE
           low == ps2_task(Entering(s), FALSE, data_bit)
           high == ps2_task(Entering(low), TRUE, data_bit)
       IN  poll_frame(high, byte, bit + 1)

\* The keyboard clocks out the byte at the head of its queue, and ps2_task polls
\* the lines at every level of the clock.
KbClockOut ==
  /\ kb_queue # <<>>
  /\ kb_clk
  /\ kb_bit = 0
  /\ StaticsBecome(poll_frame(Statics, Head(kb_queue), 0))
  /\ kb_queue' = Tail(kb_queue)
  /\ kb_key' = IF Tail(kb_queue) = <<>> THEN "none" ELSE kb_key
  /\ UNCHANGED <<kb_clk, kb_bit, kb_framing, kb_sent, nframes, kb_held, mainVars>>

\* No key is held; the observations of calls and frames are not recorded.
InitKbd ==
  /\ StaticsAre([ps2_init(TRUE) EXCEPT !.watch = FALSE])
  /\ KbIdle
  /\ MainIdle

NextKbd ==
  \/ \E k \in PhysicalKeys : KeyDown(k)
  \/ \E k \in PhysicalKeys : KeyRepeat(k)
  \/ \E k \in PhysicalKeys : KeyUp(k)
  \/ KbClockOut

SpecKbd == InitKbd /\ [][NextKbd]_vars

\* C7 (under SpecKbd): for each of the eight modifier keys, whenever no make or
\* break sequence of that key is in flight, its bit of g_modifiers is 1 exactly
\* when the key is held, whatever g_keys holds.
C7_ModifierBitsFollowKeys ==
  \A k \in ModifierKeys :
    kb_key # k => ((k \in kb_held) <=> (And8(g_modifiers, KeyBit(k)) # 0))

\* All six slots are full, Print Screen, Right Ctrl and Right Alt are held and
\* no other modifier is, and the keyboard is idle.
C7_Witness ==
  /\ Full(g_keys)
  /\ kb_held \cap ModifierKeys = {"RCtrl", "RAlt"}
  /\ "PrtSc" \in kb_held
  /\ kb_queue = <<>>
  /\ g_modifiers = HID_MOD_RIGHT_CTRL + HID_MOD_RIGHT_ALT

\* ------------------------------------------------------------------------
\* Spec: the main loop of src/main.c, which calls ps2_task and then hid_task on
\* every pass, while the keyboard clocks out up to MaxLoopFrames bytes.
\* ------------------------------------------------------------------------
\* The keyboard clocks out at most this many bytes while the loop runs.
MaxLoopFrames == 3

\* send_hid_report: returns at once when tud_hid_ready() is false, otherwise
\* reads modifiers and keys and hands them to tud_hid_keyboard_report. The result
\* is <<report, sent>>.
send_hid_report(s, rep, ready) ==
  IF ~ready THEN <<rep, FALSE>>
  ELSE <<[modifiers |-> s.g_modifiers, keys |-> s.g_keys], TRUE>>

\* hid_task: nothing before the 10 ms interval has elapsed or while the bus is
\* suspended; otherwise, if the changed flag is set, send_hid_report and then
\* ps2_clear_changed. The result is <<statics, report, what was done>>.
hid_task(s, rep, elapsed, suspended, ready) ==
  IF ~elapsed \/ suspended \/ ~s.g_state_changed THEN <<s, rep, NoHid>>
  ELSE LET sent == send_hid_report(s, rep, ready)
       IN  <<ps2_clear_changed(s), sent[1], [sent |-> sent[2], cleared |-> TRUE]>>

\* The loop calls ps2_task.
LoopPs2Task ==
  /\ pc = "ps2_task"
  /\ PollLines(TRUE)
  /\ pc' = "hid_task"
  /\ UNCHANGED <<report, hid_obs>>

\* The loop calls hid_task; board_millis, tud_suspended and tud_hid_ready answer
\* either way.
LoopHidTask ==
  /\ pc = "hid_task"
  /\ \E elapsed \in BOOLEAN, suspended \in BOOLEAN, ready \in BOOLEAN :
       LET done == hid_task(Entering(Statics), report, elapsed, suspended, ready)
       IN  /\ StaticsBecome(done[1])
           /\ report' = done[2]
           /\ hid_obs' = done[3]
  /\ pc' = "ps2_task"
  /\ UNCHANGED kbVars

Init ==
  /\ StaticsAre(ps2_init(TRUE))
  /\ KbIdle
  /\ MainIdle

Next ==
  \/ \E b \in LinkBytes : KbQueue(b, MaxLoopFrames)
  \/ LoopPs2Task
  \/ LoopHidTask

Spec == Init /\ [][Next]_vars

\* C2 (under Spec): whenever a hid_task invocation has cleared the changed flag,
\* the same invocation read modifiers and keys into a report it transmitted.
C2_ClearedAfterReport ==
  hid_obs.cleared => hid_obs.sent

\* ------------------------------------------------------------------------
\* Further claims about the frame decoder
\* ------------------------------------------------------------------------
\* C11 (under SpecLink): the latest completed frame, if its byte is 0xF0, set
\* break_pending, kept extended_pending and made no handle_scancode call; if its
\* byte is 0xE0, set extended_pending, kept break_pending and made no call;
\* otherwise it made exactly one call, with its byte and the two pending flags as
\* they were, and left both flags false, whether or not the code is mapped.
C11_PrefixHandling ==
  Len(hist) > 0 =>
    LET h == hist[Len(hist)] IN
    /\ h.code = \hF0 =>
         /\ h.break_out /\ h.extended_out = h.extended_in
         /\ h.ncalls = 0 /\ h.call = NoCall
    /\ h.code = \hE0 =>
         /\ h.extended_out /\ h.break_out = h.break_in
         /\ h.ncalls = 0 /\ h.call = NoCall
    /\ h.code \notin {\hE0, \hF0} =>
         /\ h.ncalls = 1
         /\ h.call = [code |-> h.code, is_break |-> h.break_in,
                      is_extended |-> h.extended_in]
         /\ ~h.break_out /\ ~h.extended_out

\* 0xF0 then 0xE0 set both flags, and 0x12, which the extended table does not
\* map, was dispatched with both and cleared them.
C11_Witness ==
  /\ Len(hist) = 3
  /\ hist[1].code = \hF0 /\ ~hist[1].extended_in /\ hist[1].break_out
  /\ hist[2].code = \hE0 /\ hist[2].break_in /\ hist[2].break_out /\ hist[2].extended_out
  /\ hist[3].code = \h12
  /\ hist[3].call = [code |-> \h12, is_break |-> TRUE, is_extended |-> TRUE]
  /\ ~break_pending /\ ~extended_pending

\* C12 (under SpecLink): every ps2_task call that leaves g_modifiers or a slot of
\* g_keys different from before leaves g_state_changed true, and no ps2_task
\* call takes g_state_changed from true to false.
C12_ChangedSetNeverCleared ==
  [][Poll(TRUE) =>
       /\ (g_modifiers' # g_modifiers \/ g_keys' # g_keys) => g_state_changed'
       /\ g_state_changed => g_state_changed']_vars

\* A ps2_task call changed g_keys while g_state_changed was already true from an
\* earlier mutation that no ps2_clear_changed call had followed.
C12_Witness ==
  /\ fresh
  /\ pre.changed
  /\ pre.keys # g_keys
  /\ pre.modifiers # 0
  /\ g_state_changed

\* C16 (under SpecFrame): frame_bit_index is in 0..10 in every state; a step that
\* processes a falling edge (last_clk high, sampled clock low) at
\* frame_bit_index 10 sets frame_bit_index and scancode_byte to 0, whatever the
\* start, parity and stop levels; a falling edge at any other index adds exactly
\* 1; a step without a falling edge leaves frame_bit_index as it was.
C16_BitIndex ==
  /\ [](frame_bit_index \in 0..10)
  /\ [][LET edge == last_clk /\ ~last_clk' IN
         /\ (edge /\ frame_bit_index = 10)
              => (frame_bit_index' = 0 /\ scancode_byte' = 0)
         /\ (edge /\ frame_bit_index # 10) => frame_bit_index' = frame_bit_index + 1
         /\ ~edge => frame_bit_index' = frame_bit_index]_vars

\* The frame of 0xFF completed with start bit 1, parity bit 0 and stop bit 0:
\* frame_bit_index and scancode_byte are 0 again.
C16_Witness ==
  /\ Len(hist) = 1
  /\ hist[1].code = \hFF
  /\ kb_framing = <<TRUE, FALSE, FALSE>>
  /\ frame_bit_index = 0
  /\ scancode_byte = 0

\* C17 as stated (under SpecLink): after every completed frame both
\* break_pending and extended_pending are false.
C17_FlagsResetEveryFrame ==
  Len(hist) > 0 =>
    (~hist[Len(hist)].break_out /\ ~hist[Len(hist)].extended_out)

\* C17 amended (under SpecLink): after every completed frame whose byte is
\* neither 0xF0 nor 0xE0 both break_pending and extended_pending are false.
C17_FlagsResetAfterCode ==
  (Len(hist) > 0 /\ hist[Len(hist)].code \notin {\hE0, \hF0}) =>
    (~hist[Len(hist)].break_out /\ ~hist[Len(hist)].extended_out)

\* The frame of 0x14 completed with both flags set and left both clear.
C17_Witness ==
  /\ Len(hist) > 0
  /\ hist[Len(hist)].code = \h14
  /\ hist[Len(hist)].break_in /\ hist[Len(hist)].extended_in
  /\ ~break_pending /\ ~extended_pending
  /\ frame_bit_index = 0

\* C18 (under SpecLink): a ps2_task call that observes no falling edge (last_clk
\* low, or the sampled clock high) leaves frame_bit_index, scancode_byte, both
\* pending flags, g_modifiers, g_keys and g_state_changed as they were and
\* stores the sampled level in last_clk; and the decoder has sampled as many
\* bits of the frame in flight as the keyboard has produced falling edges,
\* however many polls saw the clock low.
C18_NoEdgeNoOp ==
  /\ [](frame_bit_index = kb_bit)
  /\ [][(Poll(TRUE) /\ ~(last_clk /\ ~kb_clk')) =>
          /\ UNCHANGED <<frame_bit_index, scancode_byte, break_pending,
                         extended_pending, g_modifiers, g_keys, g_state_changed>>
          /\ last_clk' = kb_clk']_vars

\* The clock is low in the middle of a frame, after the fourth data bit, with a
\* key held, the changed flag set and a prefix pending: a poll that finds the
\* clock still low comes next.
C18_Witness ==
  /\ ~last_clk /\ ~kb_clk
  /\ frame_bit_index = 5
  /\ scancode_byte # 0
  /\ extended_pending
  /\ g_modifiers # 0
  /\ g_state_changed

\* ------------------------------------------------------------------------
\* Further claims about the keyboard state tracker
\* ------------------------------------------------------------------------
\* C13 (under SpecKeys): a handle_scancode call whose code has value 0 in the
\* table is_extended selects leaves g_modifiers, g_keys and g_state_changed as
\* they were before the call, for a press and for a release.
C13_UnknownScancode ==
  (fresh /\ ~Mapped(last)) =>
    /\ g_modifiers = pre.modifiers
    /\ g_keys = pre.keys
    /\ g_state_changed = pre.changed

\* The release of extended 0x12, which only the plain table maps, came while Left
\* Shift and a key were held and changed was false.
C13_Witness ==
  /\ fresh
  /\ last = [code |-> \h12, is_break |-> TRUE, is_extended |-> TRUE]
  /\ And8(g_modifiers, HID_MOD_LEFT_SHIFT) # 0
  /\ InKeys(g_keys, \h04)
  /\ ~g_state_changed

\* ------------------------------------------------------------------------
\* Further claims about the main loop
\* ------------------------------------------------------------------------
\* C14 (under Spec): when hid_task has just run past its interval, unsuspended,
\* with the changed flag set, the latest report handed to
\* tud_hid_keyboard_report carries the current g_modifiers and g_keys.
C14_ReportCarriesState ==
  (pc = "ps2_task" /\ hid_obs.cleared)
    => report = [modifiers |-> g_modifiers, keys |-> g_keys]

\* ------------------------------------------------------------------------
\* Further claims about a keyboard's keys
\* ------------------------------------------------------------------------
\* The claimed layout of the modifiers byte: entry i is the <<is_extended, code>>
\* scancode whose key owns bit i - 1.
ModifierLayout ==
  << <<FALSE, \h14>>, <<FALSE, \h12>>, <<FALSE, \h11>>, <<TRUE, \h1F>>,
     <<TRUE, \h14>>, <<FALSE, \h59>>, <<TRUE, \h11>>, <<TRUE, \h27>> >>

\* The modifiers byte the layout gives for a set of held keys.
RECURSIVE LayoutByte(_, _)
LayoutByte(keys, i) ==
  IF i > Len(ModifierLayout) THEN 0
  ELSE (IF \E k \in keys : KeyScan(k) = ModifierLayout[i] THEN 2 ^ (i - 1) ELSE 0)
       + LayoutByte(keys, i + 1)

\* C15 (under SpecKbd): whenever the keyboard is idle, g_modifiers has exactly
\* the bits the layout gives to the modifier keys that are held: the press of a
\* modifier scancode sets the one bit of its key (bit 0 for 0x14 ... bit 7 for
\* E0 27) and its release clears that bit and no other.
C15_ModifierLayout ==
  kb_queue = <<>> => g_modifiers = LayoutByte(kb_held, 1)

\* Right Shift alone is held, the keyboard is idle and the byte is 0x20.
C15_Witness ==
  /\ kb_queue = <<>>
  /\ kb_held = {"RShift"}
  /\ g_modifiers = \h20
  /\ g_state_changed

\* C19 (under SpecKeys): a press of an ordinary key that is in no slot, made
\* while some slot is 0, stores the key's identity in the lowest-index slot that
\* is 0 and leaves the other five slots as they were; a release of an ordinary
\* key that is in a slot zeroes that slot and leaves the other five as they were.
C19_SlotAllocation ==
  /\ (fresh /\ IsSlotKey(last) /\ ~last.is_break
        /\ ~InKeys(pre.keys, Identity(last)) /\ ~Full(pre.keys))
     => \E i \in DOMAIN pre.keys :
          /\ pre.keys[i] = 0
          /\ \A j \in DOMAIN pre.keys : j < i => pre.keys[j] # 0
          /\ g_keys = [pre.keys EXCEPT ![i] = Identity(last)]
  /\ (fresh /\ IsSlotKey(last) /\ last.is_break /\ InKeys(pre.keys, Identity(last)))
     => \E i \in DOMAIN pre.keys :
          /\ pre.keys[i] = Identity(last)
          /\ g_keys = [pre.keys EXCEPT ![i] = 0]

\* A key was pressed while slot 3 was empty after a release, slot 4 was taken
\* and slot 5 was empty: it went to slot 3.
C19_Witness ==
  /\ fresh /\ IsSlotKey(last) /\ ~last.is_break
  /\ pre.keys[3] = 0 /\ pre.keys[4] # 0 /\ pre.keys[5] = 0
  /\ g_keys[3] = Identity(last)
  /\ g_keys[5] = 0

\* Every table value in the reserved range 0xF7..0xFF is a modifier sentinel,
\* which press_key turns into a bit, or the Caps Lock sentinel, which it remaps.
SentinelsHandled ==
  \A c \in 0..255 :
    \A v \in {scancode_to_hid[c], extended_scancode_to_hid[c]} :
      v >= \hF7 => (get_modifier_mask(v) # 0 \/ caps_lock_remap(v) < \hF7)

\* C20 (under SpecKeys): no slot of g_keys holds a value of 0xF7..0xFF, and no
\* table value could put one there; after a Caps Lock press (0x58) made with an
\* empty slot or with Caps Lock held, 0x39 is in a slot, and after a Caps Lock
\* release it is in none.
C20_NoSentinelInKeys ==
  /\ \A i \in DOMAIN g_keys : g_keys[i] < \hF7
  /\ SentinelsHandled
  /\ (fresh /\ last.code = \h58 /\ ~last.is_extended) =>
       IF last.is_break THEN ~InKeys(g_keys, HID_KEY_CAPS_LOCK)
       ELSE (~Full(pre.keys) \/ InKeys(pre.keys, HID_KEY_CAPS_LOCK))
              => InKeys(g_keys, HID_KEY_CAPS_LOCK)

\* Caps Lock was pressed while Left Ctrl was held: 0x39 went into a slot that
\* was 0 before.
C20_Witness ==
  /\ fresh
  /\ last = [code |-> \h58, is_break |-> FALSE, is_extended |-> FALSE]
  /\ And8(g_modifiers, HID_MOD_LEFT_CTRL) # 0
  /\ ~InKeys(pre.keys, HID_KEY_CAPS_LOCK)
  /\ InKeys(g_keys, HID_KEY_CAPS_LOCK)

\* ------------------------------------------------------------------------
\* SpecSteps: the main loop of src/main.c with hid_task taken one call at a
\* time: its tests, then send_hid_report, then ps2_clear_changed.
\* ------------------------------------------------------------------------
\* A mutant of ps2_task_called_at: ps2_task also runs between the calls hid_task
\* makes, as it would from an interrupt handler.
ps2_task_called_anywhere(p) == TRUE

\* The loop body calls ps2_task at one place, before hid_task.
ps2_task_called_at(p) == p = "ps2_task"

\* The loop calls ps2_task.
StepPs2Task ==
  /\ ps2_task_called_at(pc)
  /\ PollLines(TRUE)
  /\ pc' = IF pc = "ps2_task" THEN "hid_task" ELSE pc
  /\ UNCHANGED <<report, hid_obs>>

\* hid_task up to its test of ps2_state_changed(): it returns before the interval
\* has elapsed, while suspended, and when the flag is clear.
StepHidCheck ==
  /\ pc = "hid_task"
  /\ \E elapsed \in BOOLEAN, suspended \in BOOLEAN :
       IF elapsed /\ ~suspended /\ g_state_changed
       THEN /\ pc' = "send_hid_report"
            /\ hid_obs' = [sent |-> FALSE, cleared |-> FALSE,
                           checked |-> [modifiers |-> g_modifiers, keys |-> g_keys]]
       ELSE /\ pc' = "ps2_task"
            /\ hid_obs' = NoHid
  /\ StaticsBecome(Entering(Statics))
  /\ UNCHANGED <<report, kbVars>>

\* hid_task calls send_hid_report.
StepSendReport ==
  /\ pc = "send_hid_report"
  /\ \E ready \in BOOLEAN :
       LET sent == send_hid_report(Statics, report, ready)
       IN  /\ report' = sent[1]
           /\ hid_obs' = [hid_obs EXCEPT !.sent = sent[2]]
  /\ pc' = "ps2_clear_changed"
  /\ StaticsBecome(Statics)
  /\ UNCHANGED kbVars

\* hid_task calls ps2_clear_changed and returns.
StepClearChanged ==
  /\ pc = "ps2_clear_changed"
  /\ StaticsBecome(ps2_clear_changed(Statics))
  /\ hid_obs' = [hid_obs EXCEPT !.cleared = TRUE]
  /\ pc' = "ps2_task"
  /\ UNCHANGED <<report, kbVars>>

InitSteps ==
  /\ StaticsAre(ps2_init(TRUE))
  /\ KbIdle
  /\ MainIdle

NextSteps ==
  \/ \E b \in LinkBytes : KbQueue(b, MaxLoopFrames)
  \/ StepPs2Task
  \/ StepHidCheck
  \/ StepSendReport
  \/ StepClearChanged

SpecSteps == InitSteps /\ [][NextSteps]_vars

\* The current g_modifiers and g_keys, as a report carries them.
CurrentReport == [modifiers |-> g_modifiers, keys |-> g_keys]

\* C21 (under SpecSteps): from hid_task's test of the changed flag to its
\* ps2_clear_changed no ps2_task call changes the keyboard state: before
\* send_hid_report and before ps2_clear_changed the flag is still set and
\* g_modifiers and g_keys are what they were at the test, a report that was
\* handed over carries them, and the same is true right after the clear.
C21_EmitterAtomic ==
  /\ pc \in {"send_hid_report", "ps2_clear_changed"} =>
       (g_state_changed /\ hid_obs.checked = CurrentReport)
  /\ (pc = "ps2_clear_changed" /\ hid_obs.sent) => report = CurrentReport
  /\ (pc = "ps2_task" /\ hid_obs.cleared) =>
       /\ ~g_state_changed
       /\ hid_obs.checked = CurrentReport
       /\ hid_obs.sent => report = CurrentReport

\* hid_task has just sent a report with a modifier set and cleared the flag while
\* the keyboard was in the middle of a frame.
C21_Witness ==
  /\ pc = "ps2_task"
  /\ hid_obs.cleared /\ hid_obs.sent
  /\ report.modifiers > 0
  /\ kb_queue # <<>> /\ kb_bit > 0

\* ------------------------------------------------------------------------
\* SpecPairs: handle_scancode and ps2_clear_changed applied from the reset state
\* with the codes 0x14, 0x11, 0x12 and 0x75, each plain and extended.
\* ------------------------------------------------------------------------
\* <<is_extended, code>>: Left/Right Ctrl, Left/Right Alt, Left Shift and the
\* unmapped extended 0x12, keypad 8 and Up arrow.
PairCodes ==
  { <<FALSE, \h14>>, <<TRUE, \h14>>, <<FALSE, \h11>>, <<TRUE, \h11>>,
    <<FALSE, \h12>>, <<TRUE, \h12>>, <<FALSE, \h75>>, <<TRUE, \h75>> }

InitPairs ==
  /\ StaticsAre(ps2_init(TRUE))
  /\ KbIdle
  /\ MainIdle

NextPairs ==
  \/ \E k \in PairCodes, is_break \in BOOLEAN : HandleScancode(k[2], is_break, k[1])
  \/ ClearChanged

SpecPairs == InitPairs /\ [][NextPairs]_vars

\* The key selected by is_extended and code, as a handle_scancode call names it.
KeyOf(is_extended, code) ==
  [code |-> code, is_break |-> FALSE, is_extended |-> is_extended]

\* C22 (under SpecPairs): a handle_scancode call whose code the table selected by
\* is_extended does not map changes nothing, and any call leaves every key other
\* than the one its (is_extended, code) pair names as it was, tracked or not: the
\* key with the same code byte in the other table, and every other mapped key.
C22_TableExclusive ==
  fresh =>
    /\ ~Mapped(last) => Kbd(Statics) = pre
    /\ \A is_extended \in BOOLEAN, code \in 0..255 :
         LET d == KeyOf(is_extended, code) IN
         (Mapped(d) /\ ~SameKey(d, last))
           => (Tracked(Kbd(Statics), d) <=> Tracked(pre, d))

\* Right Ctrl (E0 14) was released while Left Ctrl (0x14) and Right Alt (E0 11)
\* were held: only bit 4 went.
C22_Witness ==
  /\ fresh
  /\ last = [code |-> \h14, is_break |-> TRUE, is_extended |-> TRUE]
  /\ pre.modifiers = HID_MOD_LEFT_CTRL + HID_MOD_RIGHT_CTRL + HID_MOD_RIGHT_ALT
  /\ g_modifiers = HID_MOD_LEFT_CTRL + HID_MOD_RIGHT_ALT
=============================================================================
